---------------------------- MODULE Spec2Model ----------------------------
(***************************************************************************)
(* Mobile-Sensor-Streamer: the UDP listeners of src/src (Orientation_Fast, *)
(* Sensor_Dashboard, rpy_output_text, GPS, sensor_list) and the            *)
(* quaternion -> roll/pitch/yaw decoder each of the first three carries.   *)
(*                                                                         *)
(* Numbers.  A Python float is modelled in fixed point: a quaternion       *)
(* component c is the integer c * Scale, a product of two components is in *)
(* units of 1/Scale^2, and an angle is a whole number of degrees (the true *)
(* angle rounded to the nearest degree).  NaN is kept as a value of its    *)
(* own; signed zeros and infinities are not distinguished.                 *)
(***************************************************************************)
EXTENDS Integers, Sequences, FiniteSets, TLC

(***************************************************************************)
(* Python values                                                           *)
(***************************************************************************)
Scale == 10000
One2 == Scale * Scale                \* the literal 1.0 in units of 1/Scale^2

None == [k |-> "none", v |-> 0, a |-> <<>>]
NaN == [k |-> "nan", v |-> 0, a |-> <<>>]
DomainError == [k |-> "error", v |-> 0, a |-> <<>>]
Fl(n) == [k |-> "float", v |-> n, a |-> <<>>]
Arr(s) == [k |-> "array", v |-> 0, a |-> s]

IsNaN(x) == x.k = "nan"

\* float arithmetic: NaN propagates, comparisons with NaN are False
FNeg(x) == IF IsNaN(x) THEN NaN ELSE Fl(0 - x.v)
FAdd(x, y) == IF IsNaN(x) \/ IsNaN(y) THEN NaN ELSE Fl(x.v + y.v)
FSub(x, y) == IF IsNaN(x) \/ IsNaN(y) THEN NaN ELSE Fl(x.v - y.v)
FMul(x, y) == IF IsNaN(x) \/ IsNaN(y) THEN NaN ELSE Fl(x.v * y.v)
FTwice(x) == IF IsNaN(x) THEN NaN ELSE Fl(2 * x.v)
FLt(x, y) == ~IsNaN(x) /\ ~IsNaN(y) /\ x.v < y.v
FGt(x, y) == ~IsNaN(x) /\ ~IsNaN(y) /\ x.v > y.v

\* the builtins min(a, b) and max(a, b): the first argument is kept unless
\* the second compares strictly smaller (larger)
py_min(a, b) == IF FLt(b, a) THEN b ELSE a
py_max(a, b) == IF FGt(b, a) THEN b ELSE a

Abs(n) == IF n < 0 THEN 0 - n ELSE n

(***************************************************************************)
(* math.atan2, math.asin and math.degrees, to the nearest degree           *)
(***************************************************************************)
\* a/b < c/d for a, c >= 0 and b, d > 0, without forming a*d or c*b
RECURSIVE LessFrac(_, _, _, _)
LessFrac(a, b, c, d) ==
    LET qa == a \div b
        qc == c \div d
        ra == a % b
        rc == c % d
    IN  IF qa # qc THEN qa < qc
        ELSE IF rc = 0 THEN FALSE
        ELSE IF ra = 0 THEN TRUE
        ELSE LessFrac(d, rc, b, ra)

\* TanTab[d+1] = tan((d + 0.5) degrees) * 10^6, d = 0..89
TanTab ==
   << 8727, 26186, 43661, 61163, 78702, 96289,
      113936, 131652, 149451, 167343, 185339, 203452,
      221695, 240079, 258618, 277325, 296213, 315299,
      334595, 354119, 373885, 393910, 414214, 434812,
      455726, 476976, 498582, 520567, 542956, 565773,
      589045, 612801, 637070, 661886, 687281, 713293,
      739961, 767327, 795436, 824336, 854081, 884725,
      916331, 948965, 982697, 1017607, 1053780, 1091309,
      1130294, 1170850, 1213097, 1257172, 1303225, 1351422,
      1401948, 1455009, 1510835, 1569686, 1631852, 1697663,
      1767494, 1841771, 1920982, 2005690, 2096544, 2194300,
      2299843, 2414214, 2538648, 2674621, 2823913, 2988685,
      3171595, 3375943, 3605884, 3866713, 4165300, 4510709,
      4915157, 5395517, 5975764, 6691156, 7595754, 8776887,
      10385397, 12706205, 16349855, 22903766, 38188459, 114588650 >>

\* SinTab[d+1] = sin((d + 0.5) degrees) * 10^8, d = 0..89
SinTab ==
   << 872654, 2617695, 4361939, 6104854, 7845910, 9584575,
      11320321, 13052619, 14780941, 16504761, 18223553, 19936793,
      21643961, 23344536, 25038000, 26723838, 28401534, 30070580,
      31730466, 33380686, 35020738, 36650123, 38268343, 39874907,
      41469324, 43051110, 44619781, 46174861, 47715876, 49242356,
      50753836, 52249856, 53729961, 55193699, 56640624, 58070296,
      59482279, 60876143, 62251464, 63607822, 64944805, 66262005,
      67559021, 68835458, 70090926, 71325045, 72537437, 73727734,
      74895572, 76040597, 77162458, 78260816, 79335334, 80385686,
      81411552, 82412619, 83388582, 84339145, 85264016, 86162916,
      87035570, 87881711, 88701083, 89493436, 90258528, 90996127,
      91706007, 92387953, 93041757, 93667219, 94264149, 94832366,
      95371695, 95881973, 96363045, 96814764, 97236992, 97629601,
      97992470, 98325491, 98628560, 98901586, 99144486, 99357186,
      99539620, 99691733, 99813480, 99904822, 99965732, 99996192 >>

\* the whole degree nearest to atan(y/x), for y >= 0 and x > 0: the number
\* of half-degree marks 0.5, 1.5, .., 89.5 whose tangent is not above y/x
AtanScan(y, x) ==
    Cardinality({d \in 0..89 : ~LessFrac(y, x, TanTab[d + 1], 1000000)})

\* the whole degree nearest to asin(t / One2), for 0 <= t <= One2
AsinScan(t) ==
    Cardinality({d \in 0..89 : ~LessFrac(t, One2, SinTab[d + 1], 100000000)})

\* math.degrees(math.atan2(y, x))
degrees_atan2(y, x) ==
    IF IsNaN(y) \/ IsNaN(x) THEN NaN
    ELSE IF y.v = 0 /\ x.v >= 0 THEN Fl(0)
    ELSE IF y.v = 0 THEN Fl(180)
    ELSE IF x.v = 0 THEN Fl(IF y.v > 0 THEN 90 ELSE 0 - 90)
    ELSE LET a == AtanScan(Abs(y.v), Abs(x.v))
             m == IF x.v > 0 THEN a ELSE 180 - a
         IN  Fl(IF y.v > 0 THEN m ELSE 0 - m)

\* math.degrees(math.asin(t)): asin raises ValueError (math domain error)
\* outside [-1, 1] and returns nan for nan
degrees_asin(t) ==
    IF IsNaN(t) THEN NaN
    ELSE IF Abs(t.v) > One2 THEN DomainError
    ELSE LET a == AsinScan(Abs(t.v))
         IN  Fl(IF t.v >= 0 THEN a ELSE 0 - a)

(***************************************************************************)
(* The elements of a "values" list, and float() of one                     *)
(***************************************************************************)
\* a JSON number, a string holding a number, another string, null,
\* an integer beyond the range of a double, and NaN
Num(n) == [k |-> "num", v |-> n]
NumStr(n) == [k |-> "numstr", v |-> n]
BadStr == [k |-> "str", v |-> 0]
Null == [k |-> "null", v |-> 0]
BigInt == [k |-> "bigint", v |-> 0]
NaNTok == [k |-> "nan", v |-> 0]

\* float(tok): the value, or the exception float() raises
float(tok) ==
    CASE tok.k = "num" -> [exc |-> "none", val |-> Fl(tok.v)]
      [] tok.k = "numstr" -> [exc |-> "none", val |-> Fl(tok.v)]
      [] tok.k = "nan" -> [exc |-> "none", val |-> NaN]
      [] tok.k = "str" -> [exc |-> "ValueError", val |-> None]
      [] tok.k = "null" -> [exc |-> "TypeError", val |-> None]
      [] tok.k = "bigint" -> [exc |-> "OverflowError", val |-> None]

\* the exception of the first of items[1..4] whose float() raises
FirstExc(items) ==
    IF \A i \in 1..4 : float(items[i]).exc = "none" THEN "none"
    ELSE LET i == CHOOSE j \in 1..4 :
                     /\ float(items[j]).exc # "none"
                     /\ \A h \in 1..(j - 1) : float(items[h]).exc = "none"
         IN  float(items[i]).exc

Return(t) == [exc |-> "none", ret |-> t]
Raise(e) == [exc |-> e, ret |-> <<>>]

(***************************************************************************)
(* Orientation_Fast.py                                                     *)
(***************************************************************************)
\* a decoder that conjugates the raw quaternion and leaves out q_fixed
FrameCorrect_conjugate_only(q) ==
    <<FNeg(q[1]), FNeg(q[2]), FNeg(q[3]), q[4]>>

\* q -> q_fixed -> q_conj
FrameCorrect_Fast(q) ==
    LET q_fixed == <<q[1], FNeg(q[2]), FNeg(q[3]), q[4]>>
    IN  <<FNeg(q_fixed[1]), FNeg(q_fixed[2]), FNeg(q_fixed[3]), q_fixed[4]>>

Clamp_Fast(t2) ==
    LET t2a == IF FGt(t2, Fl(One2)) THEN Fl(One2) ELSE t2
    IN  IF FLt(t2a, Fl(0 - One2)) THEN Fl(0 - One2) ELSE t2a

\* vals: [list |-> whether vals is a list, items |-> its elements]
get_rpy_from_quaternion_Fast(vals) ==
    IF ~vals.list THEN Raise("TypeError")
    ELSE IF Len(vals.items) < 4 THEN Return(<<None, None, None>>)
    ELSE IF FirstExc(vals.items) \in {"ValueError", "TypeError", "IndexError"}
         THEN Return(<<None, None, None>>)
    ELSE IF FirstExc(vals.items) # "none" THEN Raise(FirstExc(vals.items))
    ELSE LET q == [i \in 1..4 |-> float(vals.items[i]).val]
             q_conj == FrameCorrect_Fast(q)
             x == q_conj[1]
             y == q_conj[2]
             z == q_conj[3]
             w == q_conj[4]
             t0 == FTwice(FAdd(FMul(w, x), FMul(y, z)))
             t1 == FSub(Fl(One2), FTwice(FAdd(FMul(x, x), FMul(y, y))))
             t2 == Clamp_Fast(FTwice(FSub(FMul(w, y), FMul(z, x))))
             t3 == FTwice(FAdd(FMul(w, z), FMul(x, y)))
             t4 == FSub(Fl(One2), FTwice(FAdd(FMul(y, y), FMul(z, z))))
         IN  IF degrees_asin(t2) = DomainError THEN Raise("ValueError")
             ELSE Return(<<degrees_atan2(t0, t1), degrees_asin(t2),
                           degrees_atan2(t3, t4), Arr(q_conj)>>)

\* a rotation matrix that reads its arguments in the order w, x, y, z
rotmat_from_quat_wxyz(w, x, y, z) ==
    <<  <<FSub(Fl(One2), FTwice(FAdd(FMul(y, y), FMul(z, z)))),
          FTwice(FSub(FMul(x, y), FMul(z, w))),
          FTwice(FAdd(FMul(x, z), FMul(y, w)))>>,
        <<FTwice(FAdd(FMul(x, y), FMul(z, w))),
          FSub(Fl(One2), FTwice(FAdd(FMul(x, x), FMul(z, z)))),
          FTwice(FSub(FMul(y, z), FMul(x, w)))>>,
        <<FTwice(FSub(FMul(x, z), FMul(y, w))),
          FTwice(FAdd(FMul(y, z), FMul(x, w))),
          FSub(Fl(One2), FTwice(FAdd(FMul(x, x), FMul(y, y))))>>  >>

rotmat_from_quat_Fast(x, y, z, w) ==
    <<  <<FSub(Fl(One2), FTwice(FAdd(FMul(y, y), FMul(z, z)))),
          FTwice(FSub(FMul(x, y), FMul(z, w))),
          FTwice(FAdd(FMul(x, z), FMul(y, w)))>>,
        <<FTwice(FAdd(FMul(x, y), FMul(z, w))),
          FSub(Fl(One2), FTwice(FAdd(FMul(x, x), FMul(z, z)))),
          FTwice(FSub(FMul(y, z), FMul(x, w)))>>,
        <<FTwice(FSub(FMul(x, z), FMul(y, w))),
          FTwice(FAdd(FMul(y, z), FMul(x, w))),
          FSub(Fl(One2), FTwice(FAdd(FMul(x, x), FMul(y, y))))>>  >>

(***************************************************************************)
(* Sensor_Dashboard.py                                                     *)
(***************************************************************************)
FrameCorrect_Dashboard(q) ==
    LET q_fixed == <<q[1], FNeg(q[2]), FNeg(q[3]), q[4]>>
    IN  <<FNeg(q_fixed[1]), FNeg(q_fixed[2]), FNeg(q_fixed[3]), q_fixed[4]>>

Clamp_Dashboard(t2) == py_max(Fl(0 - One2), py_min(Fl(One2), t2))

get_rpy_from_quaternion_Dashboard(vals) ==
    IF ~vals.list THEN Raise("TypeError")
    ELSE IF Len(vals.items) < 4 THEN Return(<<None, None, None, None>>)
    ELSE IF FirstExc(vals.items) \in {"ValueError", "TypeError"}
         THEN Return(<<None, None, None, None>>)
    ELSE IF FirstExc(vals.items) # "none" THEN Raise(FirstExc(vals.items))
    ELSE LET q == [i \in 1..4 |-> float(vals.items[i]).val]
             q_conj == FrameCorrect_Dashboard(q)
             x == q_conj[1]
             y == q_conj[2]
             z == q_conj[3]
             w == q_conj[4]
             t0 == FTwice(FAdd(FMul(w, x), FMul(y, z)))
             t1 == FSub(Fl(One2), FTwice(FAdd(FMul(x, x), FMul(y, y))))
             t2 == Clamp_Dashboard(FTwice(FSub(FMul(w, y), FMul(z, x))))
             t3 == FTwice(FAdd(FMul(w, z), FMul(x, y)))
             t4 == FSub(Fl(One2), FTwice(FAdd(FMul(y, y), FMul(z, z))))
         IN  IF degrees_asin(t2) = DomainError THEN Raise("ValueError")
             ELSE Return(<<degrees_atan2(t0, t1), degrees_asin(t2),
                           degrees_atan2(t3, t4), Arr(q_conj)>>)

rotmat_from_quat_Dashboard(x, y, z, w) ==
    <<  <<FSub(Fl(One2), FTwice(FAdd(FMul(y, y), FMul(z, z)))),
          FTwice(FSub(FMul(x, y), FMul(z, w))),
          FTwice(FAdd(FMul(x, z), FMul(y, w)))>>,
        <<FTwice(FAdd(FMul(x, y), FMul(z, w))),
          FSub(Fl(One2), FTwice(FAdd(FMul(x, x), FMul(z, z)))),
          FTwice(FSub(FMul(y, z), FMul(x, w)))>>,
        <<FTwice(FSub(FMul(x, z), FMul(y, w))),
          FTwice(FAdd(FMul(y, z), FMul(x, w))),
          FSub(Fl(One2), FTwice(FAdd(FMul(x, x), FMul(y, y))))>>  >>

(***************************************************************************)
(* rpy_output_text.py: no frame correction, three results                  *)
(***************************************************************************)
Clamp_text(t2) ==
    LET t2a == IF FGt(t2, Fl(One2)) THEN Fl(One2) ELSE t2
    IN  IF FLt(t2a, Fl(0 - One2)) THEN Fl(0 - One2) ELSE t2a

get_rpy_from_quaternion_text(vals) ==
    IF ~vals.list THEN Raise("TypeError")
    ELSE IF Len(vals.items) < 4 THEN Return(<<None, None, None>>)
    ELSE IF FirstExc(vals.items) \in {"ValueError", "TypeError", "IndexError"}
         THEN Return(<<None, None, None>>)
    ELSE IF FirstExc(vals.items) # "none" THEN Raise(FirstExc(vals.items))
    ELSE LET x == float(vals.items[1]).val
             y == float(vals.items[2]).val
             z == float(vals.items[3]).val
             w == float(vals.items[4]).val
             t0 == FTwice(FAdd(FMul(w, x), FMul(y, z)))
             t1 == FSub(Fl(One2), FTwice(FAdd(FMul(x, x), FMul(y, y))))
             t2 == Clamp_text(FTwice(FSub(FMul(w, y), FMul(z, x))))
             t3 == FTwice(FAdd(FMul(w, z), FMul(x, y)))
             t4 == FSub(Fl(One2), FTwice(FAdd(FMul(y, y), FMul(z, z))))
         IN  IF degrees_asin(t2) = DomainError THEN Raise("ValueError")
             ELSE Return(<<degrees_atan2(t0, t1), degrees_asin(t2),
                           degrees_atan2(t3, t4)>>)

(***************************************************************************)
(* Strings: a sensor name is a sequence of characters                      *)
(***************************************************************************)
Upper == <<"A","B","C","D","E","F","G","H","I","J","K","L","M",
           "N","O","P","Q","R","S","T","U","V","W","X","Y","Z">>
Lower == <<"a","b","c","d","e","f","g","h","i","j","k","l","m",
           "n","o","p","q","r","s","t","u","v","w","x","y","z">>

\* str.lower()
lower(str) ==
    [i \in 1..Len(str) |->
        IF \E j \in 1..26 : Upper[j] = str[i]
        THEN Lower[CHOOSE j \in 1..26 : Upper[j] = str[i]]
        ELSE str[i]]

\* needle in hay
Contains(hay, needle) ==
    \E i \in 0..(Len(hay) - Len(needle)) :
        SubSeq(hay, i + 1, i + Len(needle)) = needle

s_rotation == <<"r","o","t","a","t","i","o","n">>
s_gps == <<"g","p","s">>
s_battery == <<"b","a","t","t","e","r","y">>
s_Unknown == <<"U","n","k","n","o","w","n">>

(***************************************************************************)
(* Packets: the lines of a datagram                                        *)
(***************************************************************************)
\* A line is blank, not JSON, or a JSON object.  type and name are <<>>
\* when the key is absent and <<value>> when present.  The "values" field:
\*   absent     the key is missing
\*   list       a native JSON list of items
\*   str        a string; items is its text, lexeme by lexeme
\*   scalar     a JSON number
BlankLine ==
    [json |-> "blank", type |-> <<>>, name |-> <<>>,
     values |-> [form |-> "absent", items |-> <<>>]]
BadLine ==
    [json |-> "bad", type |-> <<>>, name |-> <<>>,
     values |-> [form |-> "absent", items |-> <<>>]]
Pkt(type, name, form, items) ==
    [json |-> "obj", type |-> type, name |-> name,
     values |-> [form |-> form, items |-> items]]

\* obj.get("name", default)
GetName(ln, default) == IF ln.name = <<>> THEN default ELSE ln.name[1]

\* a Python list, or a value that is not a sequence
List(items) == [list |-> TRUE, items |-> items]
NotAList == [list |-> FALSE, items |-> <<>>]

\* The text of a string, as lexemes: the brackets and the comma of a JSON
\* list, the literals (written as the elements they denote) and Word, a
\* run of letters such as abc that is no JSON literal
LBracket == [k |-> "[", v |-> 0]
RBracket == [k |-> "]", v |-> 0]
Comma == [k |-> ",", v |-> 0]
Word == [k |-> "word", v |-> 0]

\* the sender's json.dumps(items): "[" item ", " item ... "]"
json_dumps(items) ==
    <<LBracket>>
      \o [i \in 1..(IF items = <<>> THEN 0 ELSE 2 * Len(items) - 1) |->
            IF i % 2 = 1 THEN items[(i + 1) \div 2] ELSE Comma]
      \o <<RBracket>>

IsLiteral(x) == x.k \in {"num", "numstr", "str", "null", "bigint", "nan"}

\* json.loads(text): a list, a value that is no sequence (a number, null),
\* or JSONDecodeError.  A lone string literal is not among the texts tried.
json_loads(text) ==
    LET n == Len(text)
        body == SubSeq(text, 2, n - 1)
    IN  IF n = 1 /\ text[1].k \in {"num", "null", "bigint", "nan"}
        THEN [exc |-> "none", val |-> NotAList]
        ELSE IF /\ n >= 2
                /\ text[1] = LBracket
                /\ text[n] = RBracket
                /\ body = <<>> \/ Len(body) % 2 = 1
                /\ \A i \in DOMAIN body :
                       IF i % 2 = 1 THEN IsLiteral(body[i])
                       ELSE body[i] = Comma
        THEN [exc |-> "none",
              val |-> List([i \in 1..((Len(body) + 1) \div 2) |->
                              body[2 * i - 1]])]
        ELSE [exc |-> "JSONDecodeError", val |-> NotAList]

\* [vals_raw]: the string itself as the only element; it is never a numeral
\* here, and a list of one element is too short to be converted anyway
OneElement(text) == List(<<BadStr>>)

\* Orientation_Fast.py: vals from vals_raw
vals_Fast(values) ==
    CASE values.form = "str" ->
             IF json_loads(values.items).exc = "none"
             THEN json_loads(values.items).val
             ELSE OneElement(values.items)
      [] values.form = "list" -> List(values.items)
      [] values.form = "absent" -> List(<<>>)
      [] values.form = "scalar" -> List(<<>>)

\* rpy_output_text.py: vals from vals_raw
vals_text(values) ==
    CASE values.form = "str" ->
             IF json_loads(values.items).exc = "none"
             THEN json_loads(values.items).val
             ELSE OneElement(values.items)
      [] values.form = "list" -> List(values.items)
      [] values.form = "absent" -> List(<<>>)
      [] values.form = "scalar" -> List(<<>>)

\* a listener that never parses a string and always wraps it: [vals_raw]
vals_string_as_element(values) ==
    CASE values.form = "str" -> OneElement(values.items)
      [] values.form = "list" -> List(values.items)
      [] values.form = "absent" -> List(<<>>)
      [] values.form = "scalar" -> NotAList

\* Sensor_Dashboard.py: vals; a value that is no string is kept as it is
vals_Dashboard(values) ==
    CASE values.form = "str" ->
             IF json_loads(values.items).exc = "none"
             THEN json_loads(values.items).val
             ELSE OneElement(values.items)
      [] values.form = "list" -> List(values.items)
      [] values.form = "absent" -> List(<<>>)
      [] values.form = "scalar" -> NotAList

(***************************************************************************)
(* The state a listener's loop body reads and writes, as one record, and   *)
(* the loop body of each listener: one line of one datagram.               *)
(*   exc   the exception that escaped the loop body, or "none"             *)
(*   brk   the for loop over the datagram's lines was left (GPS.py)        *)
(*   log   history: one entry per line the for loop reached                *)
(***************************************************************************)
\* handed: the decoder was called; ok: it returned angles; raised: the
\* exception that left the loop body; nrows, changed: filled in by Lines
Event(ln, handed, ok, raised) ==
    [line |-> ln, handed |-> handed, ok |-> ok, raised |-> raised,
     nrows |-> 0, changed |-> FALSE]

Logged(s, ev) == [s EXCEPT !.log = Append(@, ev)]

\* the line did nothing
Skipped(s, ln) == Logged(s, Event(ln, FALSE, FALSE, "none"))

\* an exception left the loop body
Raised(s, ln, handed, e) ==
    Logged([s EXCEPT !.exc = e], Event(ln, handed, FALSE, e))

HeaderRow ==
    [hdr |-> TRUE, type |-> <<>>, name |-> <<>>, roll |-> None,
     pitch |-> None, yaw |-> None, items |-> <<>>]
Row(type, name, roll, pitch, yaw, items) ==
    [hdr |-> FALSE, type |-> type, name |-> name, roll |-> roll,
     pitch |-> pitch, yaw |-> yaw, items |-> items]
EmptyField == [k |-> "empty", v |-> 0, a |-> <<>>]

\* a gate that lets every packet with a type through: "if sensor_type:"
is_rotation_any_type(sensor_type) == sensor_type # <<>>

\* sensor_type in [11, 15]
is_rotation_Fast(sensor_type) == sensor_type \in {<<11>>, <<15>>}

\* SensorVisualizer.update, the body of "for line in text.splitlines()"
update_line_Fast(s, csv, ln) ==
    IF ln.json # "obj" THEN Skipped(s, ln)
    ELSE
    LET vals == vals_Fast(ln.values)
        sensor_type == ln.type
        name == GetName(ln, s_Unknown)
        r == get_rpy_from_quaternion_Fast(vals)
    IN  IF ~is_rotation_Fast(sensor_type) THEN Skipped(s, ln)
        ELSE IF r.exc # "none" THEN Raised(s, ln, TRUE, r.exc)
        \* roll, pitch, yaw, q = ...: four names
        ELSE IF Len(r.ret) # 4 THEN Raised(s, ln, TRUE, "ValueError")
        ELSE IF r.ret[1] = None THEN
             Logged(s, Event(ln, TRUE, FALSE, "none"))
        ELSE Logged(
               [s EXCEPT !.q_latest = r.ret[4].a,
                         !.have_quat = TRUE,
                         !.shown = <<r.ret[1], r.ret[2], r.ret[3]>>,
                         !.rows = IF csv
                                  THEN Append(@, Row(sensor_type, name,
                                         r.ret[1], r.ret[2], r.ret[3],
                                         vals.items))
                                  ELSE @],
               Event(ln, TRUE, TRUE, "none"))

\* int(tok), truncating toward zero; NumStr(n) spells n without an exponent
\* and with a decimal point exactly when n is not whole
int(tok) ==
    CASE tok.k = "num" ->
           [exc |-> "none",
            val |-> IF tok.v >= 0 THEN tok.v \div Scale
                    ELSE 0 - ((0 - tok.v) \div Scale)]
      [] tok.k = "numstr" ->
           IF tok.v % Scale = 0
           THEN [exc |-> "none",
                 val |-> IF tok.v >= 0 THEN tok.v \div Scale
                         ELSE 0 - ((0 - tok.v) \div Scale)]
           ELSE [exc |-> "ValueError", val |-> 0]
      [] tok.k = "nan" -> [exc |-> "ValueError", val |-> 0]
      [] tok.k = "str" -> [exc |-> "ValueError", val |-> 0]
      [] tok.k = "null" -> [exc |-> "TypeError", val |-> 0]
      [] tok.k = "bigint" -> [exc |-> "none", val |-> 0]

GPS_HISTORY == 5000

\* deque(maxlen=GPS_HISTORY).append
deque_append(dq, x) ==
    IF Len(dq) >= GPS_HISTORY THEN Append(Tail(dq), x) ELSE Append(dq, x)

\* a gate that also lets the packets named gps through to the decoder
is_rotation_or_gps(stype, name) ==
    \/ stype \in {<<11>>, <<15>>, <<20>>}
    \/ Contains(lower(name), s_rotation)
    \/ Contains(lower(name), s_gps)

\* stype in [11, 15, 20] or "rotation" in name.lower()
is_rotation_Dashboard(stype, name) ==
    stype \in {<<11>>, <<15>>, <<20>>} \/ Contains(lower(name), s_rotation)

\* SensorDashboard._update, the body of "for line in text.splitlines()"
update_line_Dashboard(s, ln) ==
    IF ln.json # "obj" THEN Skipped(s, ln)
    ELSE
    LET name == GetName(ln, <<>>)
        stype == ln.type
        vals == vals_Dashboard(ln.values)
        r == get_rpy_from_quaternion_Dashboard(vals)
    IN  IF is_rotation_Dashboard(stype, name) THEN
            IF r.exc # "none" THEN Raised(s, ln, TRUE, r.exc)
            ELSE IF Len(r.ret) # 4 THEN Raised(s, ln, TRUE, "ValueError")
            ELSE IF r.ret[1] = None THEN
                 Logged(s, Event(ln, TRUE, FALSE, "none"))
            ELSE Logged(
                   [s EXCEPT !.shown = <<r.ret[1], r.ret[2], r.ret[3]>>,
                             !.q_latest = r.ret[4].a,
                             !.have_quat = TRUE],
                   Event(ln, TRUE, TRUE, "none"))
        ELSE IF Contains(lower(name), s_gps) THEN
            IF ~vals.list THEN Raised(s, ln, FALSE, "TypeError")
            ELSE IF Len(vals.items) >= 2 THEN
                 Skipped([s EXCEPT !.lat = vals.items[1],
                                   !.lon = vals.items[2],
                                   !.gps_points = deque_append(@,
                                       <<vals.items[1], vals.items[2]>>)],
                         ln)
            ELSE Skipped(s, ln)
        ELSE IF Contains(lower(name), s_battery) THEN
            IF ~vals.list THEN Raised(s, ln, FALSE, "TypeError")
            ELSE IF Len(vals.items) >= 4 THEN
                 IF int(vals.items[4]).exc # "none"
                 THEN Raised([s EXCEPT !.batt = SubSeq(vals.items, 1, 3)],
                             ln, FALSE, int(vals.items[4]).exc)
                 ELSE Skipped([s EXCEPT !.batt = SubSeq(vals.items, 1, 3),
                                        !.batt_chg = int(vals.items[4]).val],
                              ln)
            ELSE IF Len(vals.items) >= 3 THEN
                 Skipped([s EXCEPT !.batt = SubSeq(vals.items, 1, 3)], ln)
            ELSE Skipped(s, ln)
        ELSE Skipped(s, ln)

\* sensor_type in [11, 15]
is_rotation_text(sensor_type) == sensor_type \in {<<11>>, <<15>>}

\* rpy_output_text.main, the body of "for line in text.splitlines()"
main_line_text(s, csv, ln) ==
    IF ln.json # "obj" THEN Skipped(s, ln)
    ELSE
    LET vals == vals_text(ln.values)
        sensor_type == ln.type
        name == GetName(ln, s_Unknown)
        handed == is_rotation_text(sensor_type)
        r == IF handed THEN get_rpy_from_quaternion_text(vals)
             ELSE Return(<<None, None, None>>)
        ok == r.ret[1] # None
        field(x) == IF x # None THEN x ELSE EmptyField
    IN  IF r.exc # "none" THEN Raised(s, ln, handed, r.exc)
        \* roll, pitch, yaw = ...: three names
        ELSE IF Len(r.ret) # 3 THEN Raised(s, ln, handed, "ValueError")
        \* ";".join(str(v) for v in vals)
        ELSE IF csv /\ ~vals.list THEN
             Raised([s EXCEPT !.printed = IF ok THEN Append(@, r.ret) ELSE @],
                    ln, handed, "TypeError")
        ELSE Logged(
               [s EXCEPT !.printed = IF ok THEN Append(@, r.ret) ELSE @,
                         !.rows = IF csv
                                  THEN Append(@, Row(sensor_type, name,
                                         field(r.ret[1]), field(r.ret[2]),
                                         field(r.ret[3]), vals.items))
                                  ELSE @],
               Event(ln, handed, ok, "none"))

\* format(tok, ".6f"): the exception it raises, or "none"
format_f(tok) ==
    CASE tok.k = "num" -> "none"
      [] tok.k = "nan" -> "none"
      [] tok.k = "numstr" -> "ValueError"
      [] tok.k = "str" -> "ValueError"
      [] tok.k = "null" -> "TypeError"
      [] tok.k = "bigint" -> "OverflowError"

\* the exception of formatting items[1..n] in order, or "none"
FirstFormatExc(items, n) ==
    IF \A i \in 1..n : format_f(items[i]) = "none" THEN "none"
    ELSE LET i == CHOOSE j \in 1..n :
                     /\ format_f(items[j]) # "none"
                     /\ \A h \in 1..(j - 1) : format_f(items[h]) = "none"
         IN  format_f(items[i])

\* GPS.py, the body of "for line in text.splitlines()"; a JSONDecodeError
\* is caught outside the for loop.  A "values" string is taken to have five
\* characters or more when it holds a list and fewer than four otherwise.
line_GPS(s, ln) ==
    IF ln.json # "obj" THEN [Skipped(s, ln) EXCEPT !.brk = TRUE]
    ELSE
    LET name == GetName(ln, <<>>)
        form == ln.values.form
        items == ln.values.items
    IN  IF ~Contains(lower(name), s_gps) THEN Skipped(s, ln)
        ELSE IF form = "scalar" THEN Raised(s, ln, FALSE, "TypeError")
        \* vals is the string: a text of five characters or more, "[a, b]",
        \* is sliced and its characters fail the format
        ELSE IF form = "str" /\ Len(items) >= 5
             THEN Raised(s, ln, FALSE, "ValueError")
        ELSE IF form # "list" THEN Skipped(s, ln)
        ELSE IF Len(items) >= 5 THEN
             IF FirstFormatExc(items, 5) # "none"
             THEN Raised(s, ln, FALSE, FirstFormatExc(items, 5))
             ELSE Skipped([s EXCEPT !.printed =
                               Append(@, SubSeq(items, 1, 5))], ln)
        ELSE IF Len(items) >= 4 THEN
             IF FirstFormatExc(items, 4) # "none"
             THEN Raised(s, ln, FALSE, FirstFormatExc(items, 4))
             ELSE Skipped([s EXCEPT !.printed =
                               Append(@, SubSeq(items, 1, 4))], ln)
        ELSE Skipped(s, ln)

\* a loop body that announces every packet with a type, seen or not
main_line_announce_all(s, ln) ==
    IF ln.json # "obj" THEN Skipped(s, ln)
    ELSE IF ln.type = <<>> THEN Skipped(s, ln)
    ELSE Skipped([s EXCEPT !.seen_sensors =
                               @ \cup {<<ln.type, GetName(ln, s_Unknown)>>},
                           !.printed =
                               Append(@, <<ln.type,
                                           GetName(ln, s_Unknown)>>)], ln)

\* sensor_list.main, the body of "for line in text.splitlines()"
main_line_sensor_list(s, ln) ==
    IF ln.json # "obj" THEN Skipped(s, ln)
    ELSE
    LET sensor_type == ln.type
        name == GetName(ln, s_Unknown)
        sensor_id == <<sensor_type, name>>
    IN  IF sensor_type = <<>> THEN Skipped(s, ln)
        ELSE IF sensor_id \notin s.seen_sensors THEN
             Skipped([s EXCEPT !.seen_sensors = @ \cup {sensor_id},
                               !.printed = Append(@, sensor_id)], ln)
        ELSE Skipped(s, ln)

\* one line, in the listener app
Line(app, csv, s, ln) ==
    CASE app = "Orientation_Fast" -> update_line_Fast(s, csv, ln)
      [] app = "Sensor_Dashboard" -> update_line_Dashboard(s, ln)
      [] app = "rpy_output_text" -> main_line_text(s, csv, ln)
      [] app = "GPS" -> line_GPS(s, ln)
      [] app = "sensor_list" -> main_line_sensor_list(s, ln)

\* history: what the line that took s to t did to the csv file and to the
\* orientation, written to the line's log entry
Measured(s, t) ==
    [t EXCEPT !.log[Len(t.log)].nrows = Len(t.rows) - Len(s.rows),
              !.log[Len(t.log)].changed =
                  <<t.q_latest, t.have_quat, t.shown>>
                    # <<s.q_latest, s.have_quat, s.shown>>]

\* for line in text.splitlines(): top to bottom, until an exception or break
RECURSIVE Lines(_, _, _, _)
Lines(app, csv, s, lines) ==
    IF lines = <<>> \/ s.exc # "none" \/ s.brk THEN s
    ELSE Lines(app, csv, Measured(s, Line(app, csv, s, Head(lines))),
               Tail(lines))

(***************************************************************************)
(* The packets the network delivers                                        *)
(***************************************************************************)
MaxSent == 2          \* lines delivered in one run, over all datagrams

n_Rotation == <<"R","o","t","a","t","i","o","n">>
n_GPS == <<"G","P","S">>
n_Battery == <<"B","a","t","t","e","r","y">>

\* (0.7071, 0, 0, 0.7071), (0, 0, 0.7071, 0.7071) and (0, 0, 0, 1)
qA == <<Num(7071), Num(0), Num(0), Num(7071)>>
qB == <<Num(0), Num(0), Num(7071), Num(7071)>>
qBs == <<NumStr(0), NumStr(0), NumStr(7071), NumStr(7071)>>
qI == <<Num(0), Num(0), Num(0), Num(Scale)>>

RotA == Pkt(<<11>>, <<n_Rotation>>, "list", qA)
RotB == Pkt(<<15>>, <<>>, "str", json_dumps(qB))
RotShort == Pkt(<<11>>, <<>>, "list", <<Num(Scale), Num(0), Num(0)>>)
RotText == Pkt(<<15>>, <<>>, "list", <<BadStr, Num(0), Num(0), Num(Scale)>>)
RotScalar == Pkt(<<11>>, <<>>, "scalar", <<>>)
\* {"type": 11, "values": "abc"}
RotWord == Pkt(<<11>>, <<>>, "str", <<Word>>)
Geomagnetic == Pkt(<<20>>, <<>>, "list", qI)
NamedRot == Pkt(<<1>>, <<n_Rotation>>, "list", qBs)
GpsFix ==
    Pkt(<<1>>, <<n_GPS>>, "list",
        <<Num(Scale), Num(2 * Scale), Num(0), Num(0), Num(Scale)>>)
\* {"type": 1, "name": "GPS", "values": "[1.0, 2.0, 0.0, 0.0, 1.0]"}
GpsStr ==
    Pkt(<<1>>, <<n_GPS>>, "str",
        json_dumps(<<Num(Scale), Num(2 * Scale), Num(0), Num(0),
                     Num(Scale)>>))
\* {"type": 1, "name": "GPS", "values": ["1.0", "2.0"]}
GpsText == Pkt(<<1>>, <<n_GPS>>, "list", <<NumStr(Scale), NumStr(2 * Scale)>>)
Battery ==
    Pkt(<<>>, <<n_Battery>>, "list",
        <<Num(4 * Scale), Num(Scale), Num(4 * Scale), Num(Scale)>>)

Catalogue ==
    {BlankLine, BadLine, RotA, RotB, RotShort, RotText, RotScalar, RotWord,
     Geomagnetic, NamedRot, GpsFix, GpsStr, GpsText, Battery}

\* the datagrams of 1..n lines
Datagrams(n) == UNION {[1..m -> Catalogue] : m \in 1..n}

(***************************************************************************)
(* State                                                                   *)
(***************************************************************************)
VARIABLES
    app,          \* which listener runs
    csv_on,       \* whether a csv path was given (self.writer / writer)
    sock,         \* datagrams received by the socket and not yet read
    sent,         \* history: lines delivered so far
    consumed,     \* history: the datagrams recvfrom returned, in order
    pc,           \* "idle", "drain" (in update's while loop), "loop"
                  \* (in main's while loop), "raised" (an exception left
                  \* the handler or main)
    exc,          \* that exception, "none" otherwise
    log,          \* history: one entry per line the for loop reached
    q_latest, have_quat,
    shown,        \* angle_label (Orientation_Fast); roll, pitch, yaw
                  \* (Sensor_Dashboard)
    cube,         \* the rotation set on the cube, <<>> before the first
    status,       \* the status label's fields, <<>> before the first
    rows,         \* the csv file's rows
    printed,      \* what was printed
    lat, lon, gps_points, batt, batt_chg,
    seen_sensors,
    dec_in, dec_out, dec_R   \* the decoder by itself: input and results

prog == <<exc, log, q_latest, have_quat, shown, rows, printed, lat, lon,
          gps_points, batt, batt_chg, seen_sensors>>
vars == <<app, csv_on, sock, sent, consumed, pc, cube, status, prog,
          dec_in, dec_out, dec_R>>

Apps == {"Orientation_Fast", "Sensor_Dashboard", "rpy_output_text", "GPS",
         "sensor_list"}
TimerApps == {"Orientation_Fast", "Sensor_Dashboard"}

\* the state the loop body works on
Cur ==
    [exc |-> exc, brk |-> FALSE, log |-> log, q_latest |-> q_latest,
     have_quat |-> have_quat, shown |-> shown, rows |-> rows,
     printed |-> printed, lat |-> lat, lon |-> lon,
     gps_points |-> gps_points, batt |-> batt, batt_chg |-> batt_chg,
     seen_sensors |-> seen_sensors]

Store(s) ==
    /\ exc' = s.exc
    /\ log' = s.log
    /\ q_latest' = s.q_latest
    /\ have_quat' = s.have_quat
    /\ shown' = s.shown
    /\ rows' = s.rows
    /\ printed' = s.printed
    /\ lat' = s.lat
    /\ lon' = s.lon
    /\ gps_points' = s.gps_points
    /\ batt' = s.batt
    /\ batt_chg' = s.batt_chg
    /\ seen_sensors' = s.seen_sensors

\* the datagram's lines left the program in state s; the loop goes on at
\* pc value back unless an exception escaped
Handled(s, back) ==
    /\ Store(s)
    /\ pc' = IF s.exc # "none" THEN "raised" ELSE back

\* the state after construction
InitProg ==
    /\ sock = <<>>
    /\ sent = 0
    /\ consumed = <<>>
    /\ pc = IF app \in TimerApps THEN "idle" ELSE "loop"
    /\ exc = "none"
    /\ log = <<>>
    /\ q_latest = <<Fl(0), Fl(0), Fl(0), Fl(Scale)>>
    /\ have_quat = FALSE
    /\ shown = <<Fl(0), Fl(0), Fl(0)>>
    /\ cube = <<>>
    /\ status = <<>>
    /\ rows = IF csv_on THEN <<HeaderRow>> ELSE <<>>
    /\ printed = <<>>
    /\ lat = Num(0)
    /\ lon = Num(0)
    /\ gps_points = <<>>
    /\ batt = <<Num(0), Num(0), Num(0)>>
    /\ batt_chg = 0
    /\ seen_sensors = {}

Init ==
    /\ app \in Apps
    /\ csv_on \in (IF app \in {"GPS", "sensor_list"} THEN {FALSE} ELSE BOOLEAN)
    /\ InitProg
    /\ dec_in = List(<<>>)
    /\ dec_out = <<>>
    /\ dec_R = <<>>

(***************************************************************************)
(* Actions                                                                 *)
(***************************************************************************)
\* the network delivers a datagram
Send ==
    /\ pc # "raised"
    /\ \E d \in Datagrams(MaxSent - sent) :
          /\ sock' = Append(sock, d)
          /\ sent' = sent + Len(d)
    /\ UNCHANGED <<app, csv_on, consumed, pc, cube, status, prog,
                   dec_in, dec_out, dec_R>>

\* QTimer.timeout: update / _update is called
timeout ==
    /\ app \in TimerApps
    /\ pc = "idle"
    /\ pc' = "drain"
    /\ UNCHANGED <<app, csv_on, sock, sent, consumed, cube, status, prog,
                   dec_in, dec_out, dec_R>>

\* update / _update: recvfrom returns a datagram; its lines are handled
update_recvfrom ==
    /\ app \in TimerApps
    /\ pc = "drain"
    /\ sock # <<>>
    /\ Handled(Lines(app, csv_on, Cur, Head(sock)), "drain")
    /\ sock' = Tail(sock)
    /\ consumed' = Append(consumed, Head(sock))
    /\ UNCHANGED <<app, csv_on, sent, cube, status, dec_in, dec_out, dec_R>>

\* the status label's text: lat, lon and batt_v go through format(.., "f")
StatusExc == FirstFormatExc(<<lat, lon, batt[1]>>, 3)

\* update / _update: recvfrom raises BlockingIOError; the loop is left, the
\* cube is turned and (Sensor_Dashboard) the status label is set
update_BlockingIOError ==
    /\ app \in TimerApps
    /\ pc = "drain"
    /\ sock = <<>>
    /\ cube' = IF ~have_quat THEN cube
               ELSE IF app = "Orientation_Fast"
               THEN <<rotmat_from_quat_Fast(q_latest[1], q_latest[2],
                                            q_latest[3], q_latest[4])>>
               ELSE <<rotmat_from_quat_Dashboard(q_latest[1], q_latest[2],
                                                 q_latest[3], q_latest[4])>>
    /\ IF app = "Sensor_Dashboard" /\ StatusExc # "none"
       THEN /\ pc' = "raised"
            /\ exc' = StatusExc
            /\ status' = status
       ELSE /\ pc' = "idle"
            /\ exc' = exc
            /\ status' = IF app = "Sensor_Dashboard"
                         THEN <<shown, lat, lon, batt[1], batt_chg>>
                         ELSE status
    /\ UNCHANGED <<app, csv_on, sock, sent, consumed, log, q_latest,
                   have_quat, shown, rows, printed, lat, lon, gps_points,
                   batt, batt_chg, seen_sensors, dec_in, dec_out, dec_R>>

\* an exception left the timer's handler and the Qt binding in use reports
\* it and keeps the event loop running (others end the process)
event_loop_continues ==
    /\ app \in TimerApps
    /\ pc = "raised"
    /\ pc' = "idle"
    /\ exc' = "none"
    /\ UNCHANGED <<app, csv_on, sock, sent, consumed, cube, status, log,
                   q_latest, have_quat, shown, rows, printed, lat, lon,
                   gps_points, batt, batt_chg, seen_sensors,
                   dec_in, dec_out, dec_R>>

\* main / <module>: recvfrom returns a datagram; its lines are handled
main_recvfrom ==
    /\ app \notin TimerApps
    /\ pc = "loop"
    /\ sock # <<>>
    /\ Handled(Lines(app, csv_on, Cur, Head(sock)), "loop")
    /\ sock' = Tail(sock)
    /\ consumed' = Append(consumed, Head(sock))
    /\ UNCHANGED <<app, csv_on, sent, cube, status, dec_in, dec_out, dec_R>>

Next ==
    \/ Send
    \/ timeout
    \/ update_recvfrom
    \/ update_BlockingIOError
    \/ event_loop_continues
    \/ main_recvfrom

Spec == Init /\ [][Next]_vars

(***************************************************************************)
(* The decoders by themselves: get_rpy_from_quaternion and                 *)
(* rotmat_from_quat applied to every input of a bounded set                *)
(***************************************************************************)
MaxValues == 4        \* the longest "values" list tried

\* 0, 0.7071, 1, "-1", "abc", null, 10**400, NaN
Tokens ==
    {Num(0), Num(7071), Num(Scale), NumStr(0 - Scale), BadStr, Null, BigInt,
     NaNTok}

DecodeInputs ==
    {List(s) : s \in UNION {[1..n -> Tokens] : n \in 0..MaxValues}}
      \cup {NotAList}

InitDecode ==
    /\ app = "Orientation_Fast"
    /\ csv_on = FALSE
    /\ InitProg
    /\ dec_in \in DecodeInputs
    /\ dec_out = <<>>
    /\ dec_R = <<>>

Called(fn, r) == <<[fn |-> fn, r |-> r]>>

call_get_rpy_from_quaternion_Fast ==
    /\ dec_out' = Called("Orientation_Fast",
                         get_rpy_from_quaternion_Fast(dec_in))
    /\ UNCHANGED <<app, csv_on, sock, sent, consumed, pc, cube, status,
                   prog, dec_in, dec_R>>

call_get_rpy_from_quaternion_Dashboard ==
    /\ dec_out' = Called("Sensor_Dashboard",
                         get_rpy_from_quaternion_Dashboard(dec_in))
    /\ UNCHANGED <<app, csv_on, sock, sent, consumed, pc, cube, status,
                   prog, dec_in, dec_R>>

call_get_rpy_from_quaternion_text ==
    /\ dec_out' = Called("rpy_output_text",
                         get_rpy_from_quaternion_text(dec_in))
    /\ UNCHANGED <<app, csv_on, sock, sent, consumed, pc, cube, status,
                   prog, dec_in, dec_R>>

\* the decoder returned a quaternion
HasQuat == 
    /\ dec_out # <<>>
    /\ dec_out[1].r.exc = "none"
    /\ Len(dec_out[1].r.ret) = 4
    /\ dec_out[1].r.ret[4] # None

\* x, y, z, w = q; R = rotmat_from_quat(x, y, z, w)
call_rotmat_from_quat ==
    /\ HasQuat
    /\ LET q == dec_out[1].r.ret[4].a
       IN  dec_R' =
             <<[fn |-> dec_out[1].fn, q |-> q,
                R |-> IF dec_out[1].fn = "Orientation_Fast"
                      THEN rotmat_from_quat_Fast(q[1], q[2], q[3], q[4])
                      ELSE rotmat_from_quat_Dashboard(q[1], q[2], q[3],
                                                      q[4])]>>
    /\ UNCHANGED <<app, csv_on, sock, sent, consumed, pc, cube, status,
                   prog, dec_in, dec_out>>

NextDecode ==
    \/ call_get_rpy_from_quaternion_Fast
    \/ call_get_rpy_from_quaternion_Dashboard
    \/ call_get_rpy_from_quaternion_text
    \/ call_rotmat_from_quat

SpecDecode == InitDecode /\ [][NextDecode]_vars

(***************************************************************************)
(* sensor_list by itself, over longer sequences of packets                 *)
(***************************************************************************)
MaxPackets == 4       \* the lines sent in all

\* lines with and without a type and a name; RotShort and RotScalar have
\* the same type and, both unnamed, the same name
SensorPackets ==
    {BadLine, RotA, RotShort, RotScalar, NamedRot, GpsFix, Battery}

InitList ==
    /\ app = "sensor_list"
    /\ csv_on = FALSE
    /\ InitProg
    /\ dec_in = List(<<>>)
    /\ dec_out = <<>>
    /\ dec_R = <<>>

\* the network delivers a datagram to sensor_list
SendList ==
    /\ pc # "raised"
    /\ \E m \in 1..(MaxPackets - sent) : \E d \in [1..m -> SensorPackets] :
          /\ sock' = Append(sock, d)
          /\ sent' = sent + Len(d)
    /\ UNCHANGED <<app, csv_on, consumed, pc, cube, status, prog,
                   dec_in, dec_out, dec_R>>

NextList ==
    \/ SendList
    \/ main_recvfrom

SpecList == InitList /\ [][NextList]_vars

(***************************************************************************)
(* Properties of the decoders, checked under SpecDecode                    *)
(***************************************************************************)
Decoded == dec_out # <<>>
Result == dec_out[1].r
First4 == SubSeq(dec_in.items, 1, 4)

\* fewer than 4 elements, or one of the first 4 is not a number: a string
\* that is no numeral, null, or an integer too large for a float
Malformed ==
    /\ dec_in.list
    /\ \/ Len(dec_in.items) < 4
       \/ \E i \in 1..4 : dec_in.items[i].k \in {"str", "null", "bigint"}

\* at least 4 elements, the first 4 of them finite numbers or numerals
WellFormed ==
    /\ dec_in.list
    /\ Len(dec_in.items) >= 4
    /\ \A i \in 1..4 : dec_in.items[i].k \in {"num", "numstr"}

\* at least 4 elements, the first 4 of them convertible to float
Numeric ==
    /\ dec_in.list
    /\ Len(dec_in.items) >= 4
    /\ \A i \in 1..4 : dec_in.items[i].k \in {"num", "numstr", "nan"}

Within(f, lo, hi) == f.k = "float" /\ lo <= f.v /\ f.v <= hi

\* C2: decode of a value sequence with fewer than 4 elements, or with an
\* element among the first 4 that cannot be converted to float, returns its
\* sentinel with every field None and raises nothing.
C2_MalformedGivesSentinel ==
    (Decoded /\ Malformed) =>
        /\ Result.exc = "none"
        /\ \A i \in DOMAIN Result.ret : Result.ret[i] = None

\* C3: for a well-formed quaternion the three decoders return the same
\* roll, pitch and yaw, those of the frame-corrected quaternion.
C3_VariantsAgree ==
    (Decoded /\ WellFormed) =>
        /\ Result.exc = "none"
        /\ SubSeq(Result.ret, 1, 3)
             = SubSeq(get_rpy_from_quaternion_Fast(dec_in).ret, 1, 3)

\* C4 (as the decoders that apply the frame correction compute it): for the
\* input (0, 0, 0.7071, 0.7071) decode returns roll 0, pitch 0 and a yaw
\* within one degree of +90: the y/z flip and the conjugate cancel on z.
C4_YawPlus90 ==
    (Decoded /\ WellFormed /\ First4 = qB
       /\ dec_out[1].fn \in {"Orientation_Fast", "Sensor_Dashboard"}) =>
        /\ Result.exc = "none"
        /\ Result.ret[1] = Fl(0)
        /\ Result.ret[2] = Fl(0)
        /\ Within(Result.ret[3], 89, 91)

C4_Witness ==
    /\ Decoded
    /\ dec_in = List(qB)
    /\ dec_out[1].fn = "Sensor_Dashboard"
    /\ Result.ret[3] = Fl(90)

\* C4 as stated: for the input (0, 0, 0.7071, 0.7071) decode returns roll 0,
\* pitch 0 and a yaw within one degree of -90.
C4_YawMinus90 ==
    (Decoded /\ WellFormed /\ First4 = qB
       /\ dec_out[1].fn \in {"Orientation_Fast", "Sensor_Dashboard"}) =>
        /\ Result.exc = "none"
        /\ Result.ret[1] = Fl(0)
        /\ Result.ret[2] = Fl(0)
        /\ Within(Result.ret[3], 0 - 91, 0 - 89)

\* C8: for four components that convert to float, decode raises no domain
\* error and its pitch is a number in [-90, 90].
C8_PitchInRange ==
    (Decoded /\ Numeric) =>
        /\ Result.exc = "none"
        /\ Within(Result.ret[2], 0 - 90, 90)

Identity3 ==
    <<  <<Fl(One2), Fl(0), Fl(0)>>,
        <<Fl(0), Fl(One2), Fl(0)>>,
        <<Fl(0), Fl(0), Fl(One2)>>  >>

\* C9: for the identity quaternion (0, 0, 0, 1) the corrected quaternion is
\* (0, 0, 0, 1), roll, pitch and yaw are 0, and the rotation matrix of the
\* corrected quaternion is the identity.
C9_Identity ==
    (Decoded /\ WellFormed /\ First4 = qI) =>
        /\ Result.exc = "none"
        /\ SubSeq(Result.ret, 1, 3) = <<Fl(0), Fl(0), Fl(0)>>
        /\ Len(Result.ret) = 4 =>
             Result.ret[4] = Arr(<<Fl(0), Fl(0), Fl(0), Fl(Scale)>>)
        /\ dec_R # <<>> =>
             /\ dec_R[1].q = <<Fl(0), Fl(0), Fl(0), Fl(Scale)>>
             /\ dec_R[1].R = Identity3

C9_Witness ==
    /\ Decoded
    /\ dec_in = List(qI)
    /\ dec_out[1].fn = "Orientation_Fast"
    /\ Len(Result.ret) = 4
    /\ dec_R # <<>>
    /\ dec_R[1].fn = "Orientation_Fast"
    /\ dec_R[1].R = Identity3

(***************************************************************************)
(* Properties of the listeners, checked under Spec                         *)
(***************************************************************************)
\* rotation-vector packets whose values are not four numbers
MalformedRotation == {RotShort, RotText, RotScalar}

\* C1: a rotation packet with fewer than four values, or with values that
\* are not numbers, never makes the body of the polling loop raise.
C1_MalformedNeverRaises ==
    \A i \in DOMAIN log :
        log[i].line \in MalformedRotation => log[i].raised = "none"

TypeIs(ln, types) == ln.json = "obj" /\ \E t \in types : ln.type = <<t>>
NamedRotation(ln) == ln.json = "obj" /\ ln.name = <<n_Rotation>>

\* C5 (as the listeners gate it): a packet reaches the decoder, and the
\* orientation changes, only if its type is 11 or 15, or, in
\* Sensor_Dashboard, its type is 20 or its name contains "rotation"; in
\* Orientation_Fast and rpy_output_text the name plays no part.
C5_DispatchGate ==
    \A i \in DOMAIN log :
        (log[i].handed \/ log[i].changed) =>
            \/ TypeIs(log[i].line, {11, 15})
            \/ /\ app = "Sensor_Dashboard"
               /\ \/ TypeIs(log[i].line, {20})
                  \/ NamedRotation(log[i].line)

C5_Witness ==
    /\ app = "Sensor_Dashboard"
    /\ \E i \in DOMAIN log :
           log[i].line = Geomagnetic /\ log[i].handed /\ log[i].changed
    /\ \E i \in DOMAIN log : log[i].line = GpsFix /\ ~log[i].handed

\* C5 as stated: a packet reaches the decoder, and the orientation changes,
\* only if its type is 11 or 15 or its name contains "rotation".
C5_OnlyTypes11And15 ==
    \A i \in DOMAIN log :
        (log[i].handed \/ log[i].changed) =>
            \/ TypeIs(log[i].line, {11, 15})
            \/ NamedRotation(log[i].line)

\* C6: with csv logging on, every packet handed to the decoder appends
\* exactly one row to the file, whether or not the decode succeeded.
C6_OneRowPerPacket ==
    csv_on =>
        \A i \in DOMAIN log : log[i].handed => log[i].nrows = 1

RECURSIVE Flatten(_)
Flatten(dgrams) ==
    IF dgrams = <<>> THEN <<>> ELSE Head(dgrams) \o Flatten(Tail(dgrams))

IsObject(ln) == ln.json = "obj"

\* C7: a line that is not valid JSON is skipped and nothing else is: while
\* no exception has left the loop body, the JSON lines the listener has
\* processed are all the JSON lines of the datagrams it has read, in order.
C7_OnlyBadLineSkipped ==
    (\A i \in DOMAIN log : log[i].raised = "none") =>
        SelectSeq([i \in DOMAIN log |-> log[i].line], IsObject)
          = SelectSeq(Flatten(consumed), IsObject)

\* the corrected quaternion and the angles of the decodable rotation packets
CorrectedOf(ln) ==
    IF ln = RotA THEN <<Fl(0 - 7071), Fl(0), Fl(0), Fl(7071)>>
    ELSE IF ln = Geomagnetic THEN <<Fl(0), Fl(0), Fl(0), Fl(Scale)>>
    ELSE <<Fl(0), Fl(0), Fl(7071), Fl(7071)>>

AnglesOf(ln) ==
    IF ln = RotA THEN <<Fl(0 - 90), Fl(0), Fl(0)>>
    ELSE IF ln = Geomagnetic THEN <<Fl(0), Fl(0), Fl(0)>>
    ELSE <<Fl(0), Fl(0), Fl(90)>>

RECURSIVE IsSubseq(_, _)
IsSubseq(a, b) ==
    IF a = <<>> THEN TRUE
    ELSE IF b = <<>> THEN FALSE
    ELSE IF Head(a) = Head(b) THEN IsSubseq(Tail(a), Tail(b))
    ELSE IsSubseq(a, Tail(b))

Processed == [i \in DOMAIN log |-> log[i].line]
DecodedOk == SelectSeq(log, LAMBDA e : e.ok)

\* the roll, pitch and yaw on display: the angle label of Orientation_Fast,
\* the status label of Sensor_Dashboard
Displayed ==
    IF app = "Sensor_Dashboard"
    THEN IF status = <<>> THEN <<>> ELSE status[1]
    ELSE shown

Drained ==
    /\ IsSubseq(Processed, Flatten(consumed))
    /\ have_quat = (DecodedOk # <<>>)
    /\ DecodedOk # <<>> =>
         /\ q_latest = CorrectedOf(DecodedOk[Len(DecodedOk)].line)
         /\ Displayed = AnglesOf(DecodedOk[Len(DecodedOk)].line)

\* C10: the lines are processed in the order received, datagram by datagram
\* and top to bottom, and each time the viewer has drained the socket it
\* holds the quaternion and displays the roll, pitch and yaw of the last
\* rotation packet it decoded.
C10_ReceiptOrder ==
    [][(app \in TimerApps /\ pc = "drain" /\ sock = <<>> /\ pc' # "drain")
         => Drained']_vars

\* the listeners that read "values" through json.loads and hand them to
\* a decoder
DecodingApps == {"Orientation_Fast", "Sensor_Dashboard", "rpy_output_text"}

\* the lists whose string encodings are sent
EncodedLists ==
    {qB, <<Num(Scale), Num(2 * Scale), Num(0), Num(0), Num(Scale)>>}

\* the packet that carries natively what ln carries in a string: the list
\* the string encodes, or the string as the one element of a list when it
\* is not JSON
Twin(ln) ==
    IF ln.json # "obj" \/ ln.values.form # "str" THEN ln
    ELSE IF \E l \in EncodedLists : json_dumps(l) = ln.values.items
    THEN Pkt(ln.type, ln.name, "list",
             CHOOSE l \in EncodedLists : json_dumps(l) = ln.values.items)
    ELSE IF ln.values.items = <<Word>>
    THEN Pkt(ln.type, ln.name, "list", <<BadStr>>)
    ELSE ln

Twins(lines) == [i \in DOMAIN lines |-> Twin(lines[i])]
TwinLog(l) == [i \in DOMAIN l |-> [l[i] EXCEPT !.line = Twin(@)]]

SameOutcome(a, b) ==
    /\ [a EXCEPT !.log = <<>>] = [b EXCEPT !.log = <<>>]
    /\ TwinLog(a.log) = TwinLog(b.log)

\* C11: in the listeners that decode, a datagram is handled as the datagram
\* would be whose string-encoded "values" are carried natively: the same
\* decode results, exceptions and state afterwards; and a "values" string
\* that is not JSON, taken as a list of one element, is never decoded and
\* changes no orientation.
C11_StringEncodedSame ==
    /\ [](\A i \in DOMAIN log :
            (log[i].line.values.form = "str"
               /\ log[i].line.values.items = <<Word>>) =>
                (~log[i].ok /\ ~log[i].changed))
    /\ [][(app \in DecodingApps /\ sock # <<>>
            /\ consumed' = Append(consumed, Head(sock)))
           => SameOutcome(Lines(app, csv_on, Cur, Twins(Head(sock))),
                          Cur')]_vars

C11_Witness ==
    /\ app = "Sensor_Dashboard"
    /\ \E i \in DOMAIN log :
           log[i].line = RotB /\ log[i].ok /\ log[i].changed
    /\ \E i \in DOMAIN log :
           log[i].line = RotWord /\ log[i].handed /\ log[i].raised = "none"
    /\ q_latest = CorrectedOf(RotB)

\* the packets of the catalogue that hold a quaternion a viewer can decode
QuaternionPackets == {RotA, RotB, Geomagnetic, NamedRot}

InitialOrientation ==
    /\ q_latest = <<Fl(0), Fl(0), Fl(0), Fl(Scale)>>
    /\ shown = <<Fl(0), Fl(0), Fl(0)>>
    /\ cube = <<>>

OrientationState ==
    /\ \A i \in DOMAIN log :
           log[i].changed =>
               /\ log[i].ok
               /\ log[i].line \in QuaternionPackets
    /\ have_quat =>
           \E d \in DOMAIN consumed : \E i \in DOMAIN consumed[d] :
               /\ consumed[d][i] \in QuaternionPackets
               /\ q_latest = CorrectedOf(consumed[d][i])
               /\ shown = AnglesOf(consumed[d][i])
    /\ ~have_quat => InitialOrientation

\* C12: in the two viewers the orientation changes only when a rotation
\* packet is decoded; have_quat, once TRUE, stays TRUE; while it is TRUE
\* q_latest is the corrected quaternion of a packet received and the stored
\* roll, pitch and yaw are that packet's; while it is FALSE the orientation
\* is the initial one and the cube has not been turned.
C12_OrientationAsUnit ==
    /\ [](app \in TimerApps => OrientationState)
    /\ [][have_quat => have_quat']_vars

C12_Witness ==
    /\ app = "Sensor_Dashboard"
    /\ have_quat
    /\ cube # <<>>
    /\ q_latest = CorrectedOf(RotA)
    /\ \E i \in DOMAIN log : log[i].line = RotA /\ log[i].changed
    /\ log[Len(log)].line = RotShort
    /\ log[Len(log)].handed
    /\ ~log[Len(log)].ok

(***************************************************************************)
(* Properties of sensor_list, checked under SpecList                       *)
(***************************************************************************)
HasType(ln) == ln.json = "obj" /\ ln.type # <<>>
PairOf(ln) == <<ln.type, IF ln.name = <<>> THEN s_Unknown ELSE ln.name[1]>>

\* the (type, name) pairs of the packets received that carry a type
PairsReceived ==
    LET typed == SelectSeq(Flatten(consumed), HasType)
    IN  [i \in DOMAIN typed |-> PairOf(typed[i])]

RECURSIVE FirstOccurrences(_)
FirstOccurrences(seq) ==
    IF seq = <<>> THEN <<>>
    ELSE LET front == FirstOccurrences(SubSeq(seq, 1, Len(seq) - 1))
             last == seq[Len(seq)]
         IN  IF \E i \in DOMAIN front : front[i] = last THEN front
             ELSE Append(front, last)

\* C13: sensor_list announces each (type, name) pair once, when it first
\* occurs; seen_sensors only grows, and is the set of the pairs of the
\* packets received that carry a type, so that a packet without a type
\* changes nothing.
C13_AnnouncedOnce ==
    /\ [](/\ seen_sensors = {PairsReceived[i] : i \in DOMAIN PairsReceived}
          /\ printed = FirstOccurrences(PairsReceived)
          /\ exc = "none")
    /\ [][seen_sensors \subseteq seen_sensors']_vars

C13_Witness ==
    /\ Flatten(consumed) = <<RotShort, GpsFix, RotScalar, Battery>>
    /\ printed = <<PairOf(RotShort), PairOf(GpsFix)>>
    /\ Cardinality(seen_sensors) = 2

(***************************************************************************)
(* The timer-driven calls, checked under Spec                              *)
(***************************************************************************)
\* the display after the refresh step: the cube turned to q_latest and, in
\* Sensor_Dashboard, the status label showing the stored angles
Refreshed ==
    /\ have_quat => cube # <<>>
    /\ app = "Sensor_Dashboard" => (status # <<>> /\ status[1] = shown)

\* C14: a call of update / _update ends only when the receive has reported
\* no data: it ends with the queue empty, by returning, and with the
\* display refreshed; and the display is refreshed nowhere else, so once
\* for the tick.
C14_DrainThenRefreshOnce ==
    /\ [][(app \in TimerApps /\ pc = "drain" /\ pc' # "drain")
            => (sock = <<>> /\ pc' = "idle" /\ Refreshed')]_vars
    /\ [][(cube' # cube \/ status' # status)
            => (pc = "drain" /\ pc' = "idle")]_vars

=============================================================================
